---- MODULE Spec2Model ----
(***************************************************************************)
(* EventHub backend: the SQLite store of src/Backend/database.js and the   *)
(* Express handlers of the server file (src/unnamed/part_000).             *)
(*                                                                         *)
(* Every db.run / db.get / db.all statement is one atomic step (SQLite     *)
(* executes a statement atomically); the JavaScript that runs between two  *)
(* awaits is part of the step that follows the statement's callback.  A    *)
(* handler is therefore a short sequence of steps, and the steps of        *)
(* different requests interleave at the awaits.  Every statement may fail  *)
(* (its callback receives err), which the handlers answer with status 500. *)
(*                                                                         *)
(* The database file is fresh when the process starts.  Foreign keys are   *)
(* declared in the schema but never switched on (no PRAGMA foreign_keys),  *)
(* so SQLite does not enforce them.                                        *)
(***************************************************************************)
EXTENDS Integers, Sequences, FiniteSets, TLC

(* ------------------------------ bounds -------------------------------- *)

\* the largest event id AUTOINCREMENT may hand out
MaxEventId == 4
\* the largest registration id AUTOINCREMENT may hand out
MaxRegId == 2

\* request slots: up to two requests are in flight at once
Procs == {1, 2}

(* --------------------------- request values --------------------------- *)

\* A JSON body value: absent, a number, or the decimal string of a number.
Undef == [k |-> "undef", v |-> 0]

Num(n) == [k |-> "num", v |-> n]

Str(n) == [k |-> "str", v |-> n]

\* JavaScript truthiness, as used by the !field tests: undefined and the
\* number 0 are falsy; every non-empty string, "0" included, is truthy.
Truthy(x) == IF x.k = "num" THEN x.v # 0 ELSE x.k = "str"

\* parseInt of a number or of its decimal string
ParseInt(x) == x.v

(* ------------------------------- text --------------------------------- *)

\* The date and time columns are TEXT.  Bytes gives the character codes of
\* the date and time strings that occur; SQLite's BINARY collation compares
\* two texts bytewise, a proper prefix being the smaller.
Bytes(text) ==
    CASE text = "2025-11-15" -> <<50, 48, 50, 53, 45, 49, 49, 45, 49, 53>>
      [] text = "2025-12-05" -> <<50, 48, 50, 53, 45, 49, 50, 45, 48, 53>>
      [] text = "2025-11-28" -> <<50, 48, 50, 53, 45, 49, 49, 45, 50, 56>>
      [] text = "09:00" -> <<48, 57, 58, 48, 48>>
      [] text = "10:00" -> <<49, 48, 58, 48, 48>>
      [] text = "13:00" -> <<49, 51, 58, 48, 48>>

Min(a, b) == IF a < b THEN a ELSE b

BytesLess(a, b) ==
    \E i \in 1..(Min(Len(a), Len(b)) + 1) :
        /\ \A j \in 1..(i - 1) : a[j] = b[j]
        /\ \/ i > Len(a) /\ i <= Len(b)
           \/ i <= Len(a) /\ i <= Len(b) /\ a[i] < b[i]

\* the date and time strings that occur
Texts == {"2025-11-15", "2025-12-05", "2025-11-28", "09:00", "10:00", "13:00"}

\* the BINARY collation on Texts, tabulated
TextOrder == [a \in Texts |-> [b \in Texts |-> BytesLess(Bytes(a), Bytes(b))]]

TextLess(a, b) == TextOrder[a][b]

(* ------------------------------- state -------------------------------- *)

VARIABLES
    srv,          \* startServer / initDatabase position
    events,       \* events table: id -> row
    regs,         \* registrations table: set of rows
    lastEventId,  \* sqlite_sequence entry of events (AUTOINCREMENT)
    lastRegId,    \* sqlite_sequence entry of registrations
    req,          \* request slot -> the handler invocation running in it
    before        \* the tables as they were when the latest request arrived

vars == <<srv, events, regs, lastEventId, lastRegId, req, before>>

store == <<events, regs, lastEventId, lastRegId>>

NoEvent == [id |-> 0, date |-> "", time |-> "", capacity |-> 0,
            attendees |-> 0, category |-> ""]

NoRes == [status |-> 0, error |-> "", n |-> 0]

\* a query-string value: absent, or a string (possibly empty)
Absent == [present |-> FALSE, s |-> ""]

Given(s) == [present |-> TRUE, s |-> s]

\* req.body before any request has filled it
NoBody == [missing |-> "none"]

Idle == [op |-> "none", pc |-> "idle", body |-> NoBody, eventId |-> 0,
         tickets |-> 0, event |-> NoEvent, current |-> 0, category |-> Absent,
         res |-> NoRes, rows |-> <<>>]

\* the three rows of sampleEvents
sampleEvents == <<
    [date |-> "2025-11-15", time |-> "09:00", capacity |-> 250,
     attendees |-> 180, category |-> "business"],
    [date |-> "2025-12-05", time |-> "10:00", capacity |-> 180,
     attendees |-> 120, category |-> "business"],
    [date |-> "2025-11-28", time |-> "13:00", capacity |-> 50,
     attendees |-> 35, category |-> "tech"] >>

Init ==
    /\ srv = "events_table"
    /\ events = <<>>
    /\ regs = {}
    /\ lastEventId = 0
    /\ lastRegId = 0
    /\ req = [p \in Procs |-> Idle]
    /\ before = [events |-> <<>>, regs |-> {}]

(* --------------------------- store queries ---------------------------- *)

\* SELECT * FROM events WHERE id = ?
GetEventById(id) == IF id \in DOMAIN events THEN events[id] ELSE NoEvent

\* SELECT * FROM registrations WHERE event_id = ?
GetEventRegistrations(id) == {r \in regs : r.event_id = id}

RECURSIVE SumTicketsOf(_)
SumTicketsOf(rows) ==
    IF rows = {} THEN 0
    ELSE LET r == CHOOSE x \in rows : TRUE
         IN  r.tickets + SumTicketsOf(rows \ {r})

\* slip: the cached attendees column is read instead of the registrations
GetEventAttendeeCount_Cached(id) ==
    IF id \in DOMAIN events THEN events[id].attendees ELSE 0

\* SELECT SUM(tickets) ... WHERE event_id = ?, then row.total || 0
GetEventAttendeeCount(id) == SumTicketsOf(GetEventRegistrations(id))

(* ------------------- startServer / initDatabase ----------------------- *)

\* CREATE TABLE IF NOT EXISTS events; on err the promise is rejected and
\* startServer's catch exits the process.
CreateEventsTable ==
    /\ srv = "events_table"
    /\ \/ srv' = "regs_table"
       \/ srv' = "exited"
    /\ UNCHANGED <<store, req, before>>

\* CREATE TABLE IF NOT EXISTS registrations
CreateRegistrationsTable ==
    /\ srv = "regs_table"
    /\ \/ srv' = "count"
       \/ srv' = "exited"
    /\ UNCHANGED <<store, req, before>>

\* SELECT COUNT(*) FROM events, awaited inside the async callback: a
\* rejection there is thrown in the callback, outside the promise executor,
\* so neither resolve nor reject is called.
GetEventCount ==
    /\ srv = "count"
    /\ \/ srv' = IF Cardinality(DOMAIN events) = 0 THEN "sample" ELSE "listening"
       \/ srv' = "unsettled"
    /\ UNCHANGED <<store, req, before>>

RECURSIVE InsertSamples(_, _, _, _)
\* the INSERTs of sampleEvents.map, in submission order; those in failed
\* insert nothing.  Result: <<events, lastEventId>>.
InsertSamples(i, failed, evs, last) ==
    IF i > Len(sampleEvents) THEN <<evs, last>>
    ELSE IF i \in failed THEN InsertSamples(i + 1, failed, evs, last)
    ELSE InsertSamples(i + 1, failed,
            ((last + 1) :> [id |-> last + 1,
                            date |-> sampleEvents[i].date,
                            time |-> sampleEvents[i].time,
                            capacity |-> sampleEvents[i].capacity,
                            attendees |-> sampleEvents[i].attendees,
                            category |-> sampleEvents[i].category]) @@ evs,
            last + 1)

\* insertSampleData: Promise.all over the three inserts, awaited in the same
\* async callback as the count.
InsertSampleData ==
    /\ srv = "sample"
    /\ \E failed \in SUBSET (1..Len(sampleEvents)) :
        LET out == InsertSamples(1, failed, events, lastEventId)
        IN  /\ events' = out[1]
            /\ lastEventId' = out[2]
            /\ srv' = IF failed = {} THEN "listening" ELSE "unsettled"
    /\ UNCHANGED <<regs, lastRegId, req, before>>

\* the rejection thrown inside the async callback has no handler: the
\* runtime either only warns about it, and the process stays up without
\* listening, or treats it as fatal and terminates the process.  In both
\* cases the promise of initDatabase stays pending.
UnhandledRejection ==
    /\ srv = "unsettled"
    /\ srv' = "killed"
    /\ UNCHANGED <<store, req, before>>

(* ------------------------ request bookkeeping ------------------------- *)

Free(p) == srv = "listening" /\ req[p].pc \in {"idle", "done"}

\* a request arrives in slot p
Arrive(p) == Free(p) /\ before' = [events |-> events, regs |-> regs]

\* res.status(...).json(...): the handler is finished and its locals die
Respond(p, status, error, n) ==
    [req[p] EXCEPT !.pc = "done", !.event = NoEvent, !.current = 0,
                   !.res = [status |-> status, error |-> error, n |-> n]]

Fresh(op) == [Idle EXCEPT !.op = op]

(* ---------------------- POST /api/registrations ----------------------- *)

RegisterFields == {"firstName", "lastName", "email", "phone"}

\* ids of the events clients create
CreatedIds == (Len(sampleEvents) + 1)..MaxEventId

\* the id of the first event a client creates
FirstCreatedId == Len(sampleEvents) + 1

\* request bodies for the first sample event and the first created event, with
\* tickets a number or the string "0"; then bodies with one text field
\* missing, with eventId absent or 0, with tickets absent or 0, with a text
\* field missing and the id of the first created event
RegisterBodies ==
    [missing : {"none"},
     eventId : {Num(1), Num(FirstCreatedId)},
     tickets : {Str(0), Num(1), Num(2)}]
    \cup [missing : RegisterFields, eventId : {Num(1)}, tickets : {Num(1)}]
    \cup [missing : {"none"}, eventId : {Undef, Num(0)}, tickets : {Num(1)}]
    \cup [missing : {"none"}, eventId : {Num(1)}, tickets : {Undef, Num(0)}]
    \cup [missing : {"email"}, eventId : {Num(FirstCreatedId)},
          tickets : {Num(1)}]

\* the bodies of overlapping requests: the first created event, positive
\* tickets
RaceRegisterBodies ==
    [missing : {"none"},
     eventId : {Num(FirstCreatedId)},
     tickets : {Num(1), Num(2)}]
    \cup [missing : {"none"}, eventId : {Num(1)}, tickets : {Undef}]

\* slip: the requested tickets are left out of the test
CapacityExceeded_IgnoresRequest(currentAttendees, tickets, capacity) ==
    currentAttendees > capacity

\* slip: the boundary is exclusive, a request for all that is left is refused
CapacityExceeded_Exclusive(currentAttendees, tickets, capacity) ==
    currentAttendees + tickets >= capacity

\* the capacity test of the handler
CapacityExceeded(currentAttendees, tickets, capacity) ==
    currentAttendees + tickets > capacity

\* slip: the event is looked up before the body is validated
RegisterStart_LookupFirst(p, body) ==
    /\ Arrive(p)
    /\ req' = [req EXCEPT ![p] =
         IF ParseInt(body.eventId) \notin DOMAIN events
         THEN [Fresh("register") EXCEPT
                 !.pc = "done",
                 !.body = body,
                 !.res = [status |-> 404, error |-> "Event not found",
                          n |-> 0]]
         ELSE IF body.missing # "none" \/ ~Truthy(body.eventId)
                 \/ ~Truthy(body.tickets)
         THEN [Fresh("register") EXCEPT
                 !.pc = "done",
                 !.body = body,
                 !.res = [status |-> 400,
                          error |-> "All required fields must be filled",
                          n |-> 0]]
         ELSE [Fresh("register") EXCEPT
                 !.pc = "lookup",
                 !.body = body,
                 !.eventId = ParseInt(body.eventId),
                 !.tickets = ParseInt(body.tickets)]]
    /\ UNCHANGED <<srv, store>>

\* destructuring and validation, then getEventById is issued
RegisterStart(p, body) ==
    /\ Arrive(p)
    /\ req' = [req EXCEPT ![p] =
         IF body.missing # "none" \/ ~Truthy(body.eventId) \/ ~Truthy(body.tickets)
         THEN [Fresh("register") EXCEPT
                 !.pc = "done",
                 !.body = body,
                 !.res = [status |-> 400,
                          error |-> "All required fields must be filled",
                          n |-> 0]]
         ELSE [Fresh("register") EXCEPT
                 !.pc = "lookup",
                 !.body = body,
                 !.eventId = ParseInt(body.eventId),
                 !.tickets = ParseInt(body.tickets)]]
    /\ UNCHANGED <<srv, store>>

\* await getEventById(parseInt(eventId)); if (!event) 404
RegisterLookup(p) ==
    /\ req[p].op = "register" /\ req[p].pc = "lookup"
    /\ \/ req' = [req EXCEPT ![p] = Respond(p, 500, "Failed to create registration", 0)]
       \/ req' = [req EXCEPT ![p] =
            IF GetEventById(req[p].eventId) = NoEvent
            THEN Respond(p, 404, "Event not found", 0)
            ELSE [req[p] EXCEPT !.pc = "count",
                                !.event = GetEventById(req[p].eventId)]]
    /\ UNCHANGED <<srv, store, before>>

\* slip: a request for more than is left is served with what is left
RegisterCount_PartialFulfilment(p) ==
    /\ req[p].op = "register" /\ req[p].pc = "count"
    /\ LET currentAttendees == GetEventAttendeeCount(req[p].eventId)
       IN  IF CapacityExceeded(currentAttendees, req[p].tickets,
                               req[p].event.capacity)
           THEN /\ lastRegId < MaxRegId
                /\ regs' = regs \cup
                     {[id |-> lastRegId + 1, event_id |-> req[p].eventId,
                       tickets |-> req[p].event.capacity - currentAttendees]}
                /\ lastRegId' = lastRegId + 1
                /\ req' = [req EXCEPT ![p] =
                      Respond(p, 400, "Only n tickets available for this event",
                              req[p].event.capacity - currentAttendees)]
           ELSE /\ req' = [req EXCEPT ![p] =
                      [req[p] EXCEPT !.pc = "insert", !.current = currentAttendees]]
                /\ UNCHANGED <<regs, lastRegId>>
    /\ UNCHANGED <<srv, events, lastEventId, before>>

\* await getEventAttendeeCount(...), then the capacity check
RegisterCount(p) ==
    /\ req[p].op = "register" /\ req[p].pc = "count"
    /\ \/ req' = [req EXCEPT ![p] = Respond(p, 500, "Failed to create registration", 0)]
       \/ LET currentAttendees == GetEventAttendeeCount(req[p].eventId)
          IN  req' = [req EXCEPT ![p] =
                IF CapacityExceeded(currentAttendees, req[p].tickets,
                                    req[p].event.capacity)
                THEN Respond(p, 400, "Only n tickets available for this event",
                             req[p].event.capacity - currentAttendees)
                ELSE [req[p] EXCEPT !.pc = "insert",
                                    !.current = currentAttendees]]
    /\ UNCHANGED <<srv, store, before>>

\* variant: the capacity is tested again, against the rows present, in the
\* step that inserts the row
RegisterInsert_Rechecks(p) ==
    /\ req[p].op = "register" /\ req[p].pc = "insert"
    /\ \/ /\ req' = [req EXCEPT ![p] = Respond(p, 500, "Failed to create registration", 0)]
          /\ UNCHANGED <<regs, lastRegId>>
       \/ /\ CapacityExceeded(GetEventAttendeeCount(req[p].eventId),
                              req[p].tickets, req[p].event.capacity)
          /\ req' = [req EXCEPT ![p] =
                Respond(p, 400, "Only n tickets available for this event",
                        req[p].event.capacity - GetEventAttendeeCount(req[p].eventId))]
          /\ UNCHANGED <<regs, lastRegId>>
       \/ /\ ~CapacityExceeded(GetEventAttendeeCount(req[p].eventId),
                               req[p].tickets, req[p].event.capacity)
          /\ lastRegId < MaxRegId
          /\ regs' = regs \cup {[id |-> lastRegId + 1,
                                 event_id |-> req[p].eventId,
                                 tickets |-> req[p].tickets]}
          /\ lastRegId' = lastRegId + 1
          /\ req' = [req EXCEPT ![p].pc = "update"]
    /\ UNCHANGED <<srv, events, lastEventId, before>>

\* await createRegistration({...}): INSERT INTO registrations
RegisterInsert(p) ==
    /\ req[p].op = "register" /\ req[p].pc = "insert"
    /\ \/ /\ req' = [req EXCEPT ![p] = Respond(p, 500, "Failed to create registration", 0)]
          /\ UNCHANGED <<regs, lastRegId>>
       \/ /\ lastRegId < MaxRegId
          /\ regs' = regs \cup {[id |-> lastRegId + 1,
                                 event_id |-> req[p].eventId,
                                 tickets |-> req[p].tickets]}
          /\ lastRegId' = lastRegId + 1
          /\ req' = [req EXCEPT ![p].pc = "update"]
    /\ UNCHANGED <<srv, events, lastEventId, before>>

\* slip: the count that was read is written back without the new tickets
NewAttendeeCount_Stale(currentAttendees, tickets) == currentAttendees

\* the value written to the attendees column
NewAttendeeCount(currentAttendees, tickets) == currentAttendees + tickets

\* slip: the UPDATE has no WHERE clause
UpdateEventAttendees_EveryRow(eventId, newAttendeeCount) ==
    [i \in DOMAIN events |-> [events[i] EXCEPT !.attendees = newAttendeeCount]]

\* UPDATE events SET attendees = ? WHERE id = ?
UpdateEventAttendees(eventId, newAttendeeCount) ==
    IF eventId \in DOMAIN events
    THEN [events EXCEPT ![eventId].attendees = newAttendeeCount]
    ELSE events

\* await updateEventAttendees(...), then the 201 response
RegisterUpdate(p) ==
    /\ req[p].op = "register" /\ req[p].pc = "update"
    /\ \/ /\ req' = [req EXCEPT ![p] = Respond(p, 500, "Failed to create registration", 0)]
          /\ UNCHANGED events
       \/ /\ events' = UpdateEventAttendees(req[p].eventId,
                          NewAttendeeCount(req[p].current, req[p].tickets))
          /\ req' = [req EXCEPT ![p] =
                Respond(p, 201, "", NewAttendeeCount(req[p].current, req[p].tickets))]
    /\ UNCHANGED <<srv, regs, lastEventId, lastRegId, before>>

(* ---------------------- DELETE /api/events/:id ------------------------ *)


\* parseInt(req.params.id); deleteEvent issues its first statement
DeleteStart(p, id) ==
    /\ Arrive(p)
    /\ req' = [req EXCEPT ![p] =
                 [Fresh("delete") EXCEPT !.pc = "delete_regs", !.eventId = id]]
    /\ UNCHANGED <<srv, store>>

\* slip: the registrations are left in place
DeleteRegistrations_Skipped(p) ==
    /\ req[p].op = "delete" /\ req[p].pc = "delete_regs"
    /\ req' = [req EXCEPT ![p].pc = "delete_event"]
    /\ UNCHANGED <<srv, store, before>>

\* DELETE FROM registrations WHERE event_id = ?
DeleteRegistrations(p) ==
    /\ req[p].op = "delete" /\ req[p].pc = "delete_regs"
    /\ \/ /\ req' = [req EXCEPT ![p] = Respond(p, 500, "Failed to delete event", 0)]
          /\ UNCHANGED regs
       \/ /\ regs' = regs \ GetEventRegistrations(req[p].eventId)
          /\ req' = [req EXCEPT ![p].pc = "delete_event"]
    /\ UNCHANGED <<srv, events, lastEventId, lastRegId, before>>

\* slip: the handler reports one deleted row whatever this.changes is
DeleteEventRow_ReportsOne(p) ==
    /\ req[p].op = "delete" /\ req[p].pc = "delete_event"
    /\ \/ /\ req' = [req EXCEPT ![p] = Respond(p, 500, "Failed to delete event", 0)]
          /\ UNCHANGED events
       \/ /\ events' = [i \in DOMAIN events \ {req[p].eventId} |-> events[i]]
          /\ req' = [req EXCEPT ![p] = Respond(p, 200, "", 1)]
    /\ UNCHANGED <<srv, regs, lastEventId, lastRegId, before>>

\* DELETE FROM events WHERE id = ?; resolve(this.changes); 404 when it is 0
DeleteEventRow(p) ==
    /\ req[p].op = "delete" /\ req[p].pc = "delete_event"
    /\ \/ /\ req' = [req EXCEPT ![p] = Respond(p, 500, "Failed to delete event", 0)]
          /\ UNCHANGED events
       \/ LET changes == IF req[p].eventId \in DOMAIN events THEN 1 ELSE 0
          IN  /\ events' = [i \in DOMAIN events \ {req[p].eventId} |-> events[i]]
              /\ req' = [req EXCEPT ![p] =
                    IF changes = 0
                    THEN Respond(p, 404, "Event not found", changes)
                    ELSE Respond(p, 200, "", changes)]
    /\ UNCHANGED <<srv, regs, lastEventId, lastRegId, before>>

(* -------------------------- POST /api/events -------------------------- *)

CreateFields == {"title", "description", "date", "time", "location", "category"}

\* (date, time, category) of the events clients create: on the date of the
\* third sample event, at an earlier time
CreateTexts ==
    {[date |-> "2025-11-28", time |-> "09:00", category |-> "tech"]}

CreateBodies ==
    [missing : {"none"}, capacity : {Num(2)}, text : CreateTexts]
    \cup [missing : CreateFields, capacity : {Num(2)},
          text : {CHOOSE t \in CreateTexts : TRUE}]
    \cup [missing : {"none"}, capacity : {Undef, Num(0)},
          text : {CHOOSE t \in CreateTexts : TRUE}]

\* slip: capacity is left out of the validation
CreateStart_NoCapacityCheck(p, body) ==
    /\ Arrive(p)
    /\ req' = [req EXCEPT ![p] =
         IF body.missing # "none"
         THEN [Fresh("create") EXCEPT
                 !.pc = "done",
                 !.body = body,
                 !.res = [status |-> 400, error |-> "All fields are required",
                          n |-> 0]]
         ELSE [Fresh("create") EXCEPT
                 !.pc = "insert_event",
                 !.body = body,
                 !.event = [id |-> 0,
                            date |-> body.text.date,
                            time |-> body.text.time,
                            capacity |-> ParseInt(body.capacity),
                            attendees |-> 0,
                            category |-> body.text.category]]]
    /\ UNCHANGED <<srv, store>>

\* destructuring and validation, then createEvent is issued
CreateStart(p, body) ==
    /\ Arrive(p)
    /\ req' = [req EXCEPT ![p] =
         IF body.missing # "none" \/ ~Truthy(body.capacity)
         THEN [Fresh("create") EXCEPT
                 !.pc = "done",
                 !.body = body,
                 !.res = [status |-> 400, error |-> "All fields are required",
                          n |-> 0]]
         ELSE [Fresh("create") EXCEPT
                 !.pc = "insert_event",
                 !.body = body,
                 !.event = [id |-> 0,
                            date |-> body.text.date,
                            time |-> body.text.time,
                            capacity |-> ParseInt(body.capacity),
                            attendees |-> 0,
                            category |-> body.text.category]]]
    /\ UNCHANGED <<srv, store>>

\* slip: the id column is not AUTOINCREMENT, the new rowid is one more than
\* the largest stored
CreateInsert_ReusesRowid(p) ==
    /\ req[p].op = "create" /\ req[p].pc = "insert_event"
    /\ \/ /\ req' = [req EXCEPT ![p] = Respond(p, 500, "Failed to create event", 0)]
          /\ UNCHANGED <<events, lastEventId>>
       \/ LET rowid == IF DOMAIN events = {} THEN 1
                       ELSE 1 + CHOOSE m \in DOMAIN events :
                                   \A i \in DOMAIN events : i <= m
          IN  /\ rowid <= MaxEventId
              /\ events' = (rowid :> [req[p].event EXCEPT !.id = rowid,
                                                          !.attendees = 0])
                           @@ events
              /\ lastEventId' = rowid
              /\ req' = [req EXCEPT ![p] = Respond(p, 201, "", rowid)]
    /\ UNCHANGED <<srv, regs, lastRegId, before>>

\* INSERT INTO events (...): attendees takes its DEFAULT 0, the id comes
\* from AUTOINCREMENT; resolve({ id: this.lastID, ...eventData, attendees: 0 })
CreateInsert(p) ==
    /\ req[p].op = "create" /\ req[p].pc = "insert_event"
    /\ \/ /\ req' = [req EXCEPT ![p] = Respond(p, 500, "Failed to create event", 0)]
          /\ UNCHANGED <<events, lastEventId>>
       \/ /\ lastEventId < MaxEventId
          /\ events' = ((lastEventId + 1) :>
                           [req[p].event EXCEPT !.id = lastEventId + 1,
                                                !.attendees = 0]) @@ events
          /\ lastEventId' = lastEventId + 1
          /\ req' = [req EXCEPT ![p] = Respond(p, 201, "", lastEventId + 1)]
    /\ UNCHANGED <<srv, regs, lastRegId, before>>

RaceCreateBodies ==
    [missing : {"none"}, capacity : {Num(2)},
     text : {CHOOSE t \in CreateTexts : TRUE}]
    \cup [missing : {"none"}, capacity : {Undef},
          text : {CHOOSE t \in CreateTexts : TRUE}]

(* -------------------------- GET /api/events --------------------------- *)

\* ?category= values
CategoryFilters ==
    {Absent, Given(""), Given("all"), Given("tech"), Given("business"),
     Given("music")}

\* if (category && category !== 'all') query += " WHERE category = ?"
Filtered(category) == category.present /\ category.s # "" /\ category.s # "all"

\* the rows (by id) the WHERE clause keeps
Matching(category) ==
    {i \in DOMAIN events : Filtered(category) => events[i].category = category.s}

\* slip: ORDER BY date alone
OrderedBefore_DateOnly(a, b) == TextLess(a.date, b.date)

\* ORDER BY date, time: row a sorts strictly before row b
OrderedBefore(a, b) ==
    \/ TextLess(a.date, b.date)
    \/ a.date = b.date /\ TextLess(a.time, b.time)

RECURSIVE OrderBy(_)
\* every sequence of the rows (by id) that ORDER BY date, time can return:
\* rows with equal keys come in any order
OrderBy(ids) ==
    IF ids = {} THEN {<<>>}
    ELSE UNION {{<<m>> \o rest : rest \in OrderBy(ids \ {m})} :
                m \in {x \in ids : \A y \in ids :
                                      ~OrderedBefore(events[y], events[x])}}

\* getAllEvents(category): one db.all
GetAllEvents(p, category) ==
    /\ Arrive(p)
    /\ \/ req' = [req EXCEPT ![p] =
            [Fresh("list") EXCEPT
                !.category = category, !.pc = "done",
                !.res = [status |-> 500, error |-> "Failed to fetch events", n |-> 0]]]
       \/ \E ids \in OrderBy(Matching(category)) :
            req' = [req EXCEPT ![p] =
              [Fresh("list") EXCEPT
                !.category = category, !.pc = "done",
                !.rows = [k \in 1..Len(ids) |-> events[ids[k]]],
                !.res = [status |-> 200, error |-> "", n |-> 0]]]
    /\ UNCHANGED <<srv, store>>

(* --------------------------- specifications --------------------------- *)

Boot ==
    \/ CreateEventsTable
    \/ CreateRegistrationsTable
    \/ GetEventCount
    \/ InsertSampleData

\* the steps of the requests that run in the slots of P, the requests being
\* drawn from the given bodies, ids and filters
Requests(P, registerBodies, deleteIds, createBodies, filters) ==
    \/ \E p \in P, body \in registerBodies : RegisterStart(p, body)
    \/ \E p \in P : RegisterLookup(p)
    \/ \E p \in P : RegisterCount(p)
    \/ \E p \in P : RegisterInsert(p)
    \/ \E p \in P : RegisterUpdate(p)
    \/ \E p \in P, id \in deleteIds : DeleteStart(p, id)
    \/ \E p \in P : DeleteRegistrations(p)
    \/ \E p \in P : DeleteEventRow(p)
    \/ \E p \in P, body \in createBodies : CreateStart(p, body)
    \/ \E p \in P : CreateInsert(p)
    \/ \E p \in P, category \in filters : GetAllEvents(p, category)

\* requests overlap: their steps interleave at the awaits
Next ==
    \/ Boot
    \/ UnhandledRejection
    \/ Requests(Procs, RaceRegisterBodies, {FirstCreatedId}, RaceCreateBodies,
                {Absent})

Spec == Init /\ [][Next]_vars

\* requests one at a time: each runs to completion before the next starts
NextSeq ==
    \/ Boot
    \/ UnhandledRejection
    \/ Requests({1}, RegisterBodies, CreatedIds, CreateBodies, CategoryFilters)

SpecSeq == Init /\ [][NextSeq]_vars

\* the id of the last sample event
LastSampleId == Len(sampleEvents)

\* the bodies of overlapping requests for the last sample event
SampleRegisterBodies ==
    [missing : {"none"}, eventId : {Num(LastSampleId)}, tickets : {Num(1)}]
    \cup [missing : {"none"}, eventId : {Num(1)}, tickets : {Undef}]

\* requests overlap, the registrations and deletions being for the last
\* sample event: events are created while it is, or has been, stored
NextSample ==
    \/ Boot
    \/ UnhandledRejection
    \/ Requests(Procs, SampleRegisterBodies, {LastSampleId}, RaceCreateBodies,
                {Absent})

SpecSample == Init /\ [][NextSample]_vars

(* ------------------------------ claims -------------------------------- *)

\* the sum of tickets of the registrations of event id, now and when the
\* latest request arrived
Tickets(id) == SumTicketsOf({r \in regs : r.event_id = id})

TicketsBefore(id) == SumTicketsOf({r \in before.regs : r.event_id = id})

\* no request is in progress
Quiescent == \A p \in Procs : req[p].pc \in {"idle", "done"}

\* slot p holds a finished request of kind op
Finished(p, op) == req[p].op = op /\ req[p].pc = "done"

ValidationRejected(p) ==
    req[p].res.status = 400 /\ req[p].res.error = "All required fields must be filled"

CapacityRejected(p) ==
    req[p].res.status = 400
    /\ req[p].res.error = "Only n tickets available for this event"

\* C1: with requests one at a time, whenever no request is in progress the
\* tickets of the registrations of every event of positive capacity sum to
\* at most its capacity.
C1_CapacityRespected ==
    Quiescent =>
        \A e \in DOMAIN events :
            events[e].capacity > 0 => Tickets(e) <= events[e].capacity

\* C1 witness: a registration has just succeeded and filled a created event
\* exactly, with more than one registration.
C1_Witness ==
    /\ Finished(1, "register") /\ req[1].res.status = 201
    /\ req[1].eventId = FirstCreatedId
    /\ FirstCreatedId \in DOMAIN events
    /\ Tickets(FirstCreatedId) = events[FirstCreatedId].capacity
    /\ Cardinality(GetEventRegistrations(FirstCreatedId)) = 2

\* C2: a register request that has passed the capacity check is not checked
\* again: from then on it ends with success or a storage error, never with a
\* capacity error, whatever other requests have inserted in the meantime.
C2_NoCheckAfterCount ==
    [][\A p \in Procs :
         (req[p].op = "register" /\ req[p].pc \in {"insert", "update"}
          /\ req'[p].pc = "done") => req'[p].res.status \in {201, 500}]_vars

\* C2 witness: two register requests for one event have both succeeded after
\* reading the same count, and the event is overbooked.
C2_Witness ==
    /\ Finished(1, "register") /\ req[1].res.status = 201
    /\ Finished(2, "register") /\ req[2].res.status = 201
    /\ req[1].eventId = req[2].eventId
    /\ req[1].res.n - req[1].tickets = req[2].res.n - req[2].tickets
    /\ req[1].eventId \in DOMAIN events
    /\ events[req[1].eventId].capacity > 0
    /\ Tickets(req[1].eventId) > events[req[1].eventId].capacity

\* C3: a valid register request for an existing event, run alone and not
\* stopped by a storage error, succeeds exactly when the tickets sum S before
\* it plus its tickets is at most the capacity C; on success the sum becomes
\* S + tickets, on refusal the error reports C - S.
C3_InclusiveBoundary ==
    \A p \in Procs :
        (/\ Finished(p, "register")
         /\ ~ValidationRejected(p)
         /\ req[p].res.status # 500
         /\ req[p].eventId \in DOMAIN before.events
         /\ TicketsBefore(req[p].eventId) <= before.events[req[p].eventId].capacity)
        => LET S == TicketsBefore(req[p].eventId)
               C == before.events[req[p].eventId].capacity
           IN  /\ req[p].res.status = 201 <=> S + req[p].tickets <= C
               /\ req[p].res.status = 201 => Tickets(req[p].eventId) = S + req[p].tickets
               /\ req[p].res.status # 201 =>
                     /\ CapacityRejected(p)
                     /\ req[p].res.n = C - S
                     /\ Tickets(req[p].eventId) = S

\* C3 witness: a created event was filled exactly by earlier requests, and a
\* request for one more ticket has been refused reporting 0 left.
C3_Witness ==
    /\ Finished(1, "register") /\ CapacityRejected(1)
    /\ req[1].eventId = FirstCreatedId
    /\ req[1].tickets = 1
    /\ req[1].res.n = 0
    /\ FirstCreatedId \in DOMAIN events
    /\ Tickets(FirstCreatedId) = events[FirstCreatedId].capacity

\* C4: a register request refused for validation, for a missing event or for
\* capacity leaves both tables as they were when it arrived.
C4_RejectionChangesNothing ==
    \A p \in Procs :
        (Finished(p, "register") /\ req[p].res.status \in {400, 404})
        => events = before.events /\ regs = before.regs

\* C4 witness: a capacity refusal for an event that already has
\* registrations.
C4_Witness ==
    /\ Finished(1, "register") /\ CapacityRejected(1)
    /\ GetEventRegistrations(req[1].eventId) # {}
    /\ req[1].res.n > 0

\* C5: after a delete request has answered success, with no other request in
\* progress, the event has no registrations and is not found.
C5_DeleteCascades ==
    \A p \in Procs :
        (Finished(p, "delete") /\ req[p].res.status = 200)
        => /\ {r \in regs : r.event_id = req[p].eventId} = {}
           /\ req[p].eventId \notin DOMAIN events
           /\ GetEventById(req[p].eventId) = NoEvent

\* C5 witness: a successful delete of an event that had registrations.
C5_Witness ==
    /\ Finished(1, "delete") /\ req[1].res.status = 200
    /\ {r \in before.regs : r.event_id = req[1].eventId} # {}
    /\ req[1].eventId \in DOMAIN before.events

\* C6: every registration row references an event that exists, in every
\* state, overlapping requests included.
C6_NoOrphanRegistration == \A r \in regs : r.event_id \in DOMAIN events

\* C7: a delete request that answers failure leaves the event and its
\* registrations as they were when it arrived.
C7_DeleteAllOrNothing ==
    \A p \in Procs :
        (Finished(p, "delete") /\ req[p].res.status = 500)
        => events = before.events /\ regs = before.regs

C9_RegisterUnitOfWork ==
    \A p \in Procs :
        Finished(p, "register") =>
            /\ req[p].res.status # 201 => regs = before.regs
            /\ req[p].res.status = 201 =>
                  /\ \E r \in regs \ before.regs :
                        r.event_id = req[p].eventId /\ r.tickets = req[p].tickets
                  /\ events[req[p].eventId].attendees = req[p].res.n

\* the rows of a result, and the result read as ascending by (date, time)
RowsOf(rows) == {rows[k] : k \in 1..Len(rows)}

Ascending(rows) ==
    \A i, j \in 1..Len(rows) :
        i < j =>
            ~ \/ BytesLess(Bytes(rows[j].date), Bytes(rows[i].date))
              \/ /\ rows[j].date = rows[i].date
                 /\ BytesLess(Bytes(rows[j].time), Bytes(rows[i].time))

AllRows == {events[i] : i \in DOMAIN events}

\* C10 as stated: the result is all stored events when the filter is absent
\* or "all", otherwise the stored events of that category; ascending by
\* (date, time).
C10_ListAsStated ==
    \A p \in Procs :
        (Finished(p, "list") /\ req[p].res.status = 200)
        => /\ Len(req[p].rows) = Cardinality(RowsOf(req[p].rows))
           /\ RowsOf(req[p].rows) =
                IF ~req[p].category.present \/ req[p].category.s = "all"
                THEN AllRows
                ELSE {e \in AllRows : e.category = req[p].category.s}
           /\ Ascending(req[p].rows)

\* C10 amended: the result is all stored events when the filter is absent,
\* empty or "all", otherwise the stored events of that category; ascending
\* by (date, time).
C10_ListEvents ==
    \A p \in Procs :
        (Finished(p, "list") /\ req[p].res.status = 200)
        => /\ Len(req[p].rows) = Cardinality(RowsOf(req[p].rows))
           /\ RowsOf(req[p].rows) =
                IF \/ ~req[p].category.present
                   \/ req[p].category.s = ""
                   \/ req[p].category.s = "all"
                THEN AllRows
                ELSE {e \in AllRows : e.category = req[p].category.s}
           /\ Ascending(req[p].rows)

\* C10 witness: the filter "tech" has returned the created event and then
\* the third sample event, which share a date and differ in time.
C10_Witness ==
    /\ Finished(1, "list") /\ req[1].res.status = 200
    /\ req[1].category = Given("tech")
    /\ Len(req[1].rows) = 2
    /\ req[1].rows[1].date = req[1].rows[2].date
    /\ req[1].rows[1].time # req[1].rows[2].time
    /\ Cardinality(DOMAIN events) > 2

(* ------------------------------- C11 ---------------------------------- *)

\* a field of the create form is missing from the body
CreateFieldMissing(body) == body.missing # "none" \/ body.capacity = Undef

\* C11: with requests one at a time, a create request with any of title,
\* description, date, time, location, capacity, category missing is answered
\* with the validation error, and a create request answered with the
\* validation error leaves events and registrations as they were when it
\* arrived; a create request that succeeds leaves the events it found as they
\* were and adds exactly one event, whose attendees is 0.
C11_CreateValidated ==
    Finished(1, "create") =>
        /\ CreateFieldMissing(req[1].body)
           => req[1].res = [status |-> 400,
                            error |-> "All fields are required", n |-> 0]
        /\ req[1].res.status = 400
           => events = before.events /\ regs = before.regs
        /\ req[1].res.status = 201
           => /\ req[1].res.n \notin DOMAIN before.events
              /\ DOMAIN events = DOMAIN before.events \cup {req[1].res.n}
              /\ \A i \in DOMAIN before.events : events[i] = before.events[i]
              /\ events[req[1].res.n].attendees = 0
              /\ regs = before.regs

\* a create request without title has been refused after an earlier create
\* request added the first created event
C11_Witness ==
    /\ Finished(1, "create")
    /\ req[1].body.missing = "title"
    /\ req[1].res.status = 400
    /\ FirstCreatedId \in DOMAIN events
    /\ events[FirstCreatedId].attendees = 0

(* ------------------------------- C12 ---------------------------------- *)

\* C12: every stored registration has tickets >= 1, whatever integer or
\* string of an integer the request gave as tickets; a request whose tickets
\* value is not positive stores no registration.
C12_TicketsPositive ==
    /\ \A r \in regs : r.tickets >= 1
    /\ \A p \in Procs :
         (req[p].op = "register" /\ ParseInt(req[p].body.tickets) < 1)
         => regs = before.regs

(* ------------------------------- C13 ---------------------------------- *)

\* the rows of event e in a table of registrations
RegistrationsIn(rows, e) == {r \in rows : r.event_id = e}

\* C13: with requests one at a time, no step changes the capacity or the id
\* of an event that is stored before and after it; and a step of a register
\* or delete request for event E leaves the record of every other event and
\* the registrations of every other event as they were.
C13_OthersUntouched ==
    [][/\ \A e \in DOMAIN events \cap DOMAIN events' :
            /\ events'[e].capacity = events[e].capacity
            /\ events'[e].id = events[e].id
       /\ \A p \in Procs :
            (req'[p] # req[p] /\ req'[p].op \in {"register", "delete"})
            => \A e \in 1..MaxEventId :
                 e # req'[p].eventId
                 => /\ (e \in DOMAIN events) = (e \in DOMAIN events')
                    /\ e \in DOMAIN events => events'[e] = events[e]
                    /\ RegistrationsIn(regs', e) = RegistrationsIn(regs, e)
      ]_vars

\* the first created event and its registration have been deleted while the
\* first sample event keeps its registration and its record
C13_Witness ==
    /\ Finished(1, "delete")
    /\ req[1].res.status = 200
    /\ RegistrationsIn(before.regs, req[1].eventId) # {}
    /\ RegistrationsIn(regs, req[1].eventId) = {}
    /\ RegistrationsIn(regs, 1) # {}
    /\ RegistrationsIn(regs, 1) = RegistrationsIn(before.regs, 1)
    /\ events[1] = before.events[1]

(* ------------------------------- C14 ---------------------------------- *)

\* a field of the registration form is missing from the body
RegisterFieldMissing(body) ==
    body.missing # "none" \/ body.eventId = Undef \/ body.tickets = Undef

\* the outcomes of a register request, as the client receives them
RegisterOutcomes ==
    {"success", "validation", "not_found", "capacity", "storage"}

RegisterOutcome(p, kind) ==
    CASE kind = "success" -> req[p].res.status = 201 /\ req[p].res.error = ""
      [] kind = "validation" -> ValidationRejected(p)
      [] kind = "not_found" ->
            req[p].res.status = 404 /\ req[p].res.error = "Event not found"
      [] kind = "capacity" -> CapacityRejected(p)
      [] kind = "storage" ->
            /\ req[p].res.status = 500
            /\ req[p].res.error = "Failed to create registration"

\* C14: with requests one at a time, a finished register request has exactly
\* one of the outcomes success, validation error, event not found, capacity
\* exceeded, storage error, which the response tells apart; a request with a
\* field missing gets the validation error whether or not its event exists,
\* a complete request for an event that is not stored gets event not found
\* unless the storage fails, and capacity exceeded is answered only for a
\* stored event whose registered tickets plus the requested exceed capacity.
C14_RegisterOutcomes ==
    Finished(1, "register") =>
        /\ Cardinality({k \in RegisterOutcomes : RegisterOutcome(1, k)}) = 1
        /\ RegisterFieldMissing(req[1].body) => RegisterOutcome(1, "validation")
        /\ RegisterOutcome(1, "validation")
           => \/ req[1].body.missing # "none"
              \/ ~Truthy(req[1].body.eventId)
              \/ ~Truthy(req[1].body.tickets)
        /\ ( /\ ~RegisterOutcome(1, "validation")
             /\ ~RegisterOutcome(1, "storage")
             /\ req[1].eventId \notin DOMAIN before.events )
           => RegisterOutcome(1, "not_found")
        /\ RegisterOutcome(1, "not_found")
           => req[1].eventId \notin DOMAIN before.events
        /\ RegisterOutcome(1, "capacity")
           => /\ req[1].eventId \in DOMAIN before.events
              /\ TicketsBefore(req[1].eventId) + req[1].tickets
                   > before.events[req[1].eventId].capacity

\* a request without email for the first created event, which is not stored,
\* has been answered with the validation error
C14_Witness ==
    /\ Finished(1, "register")
    /\ req[1].body.missing = "email"
    /\ req[1].body.eventId = Num(FirstCreatedId)
    /\ FirstCreatedId \notin DOMAIN events
    /\ RegisterOutcome(1, "validation")

(* ------------------------------- C15 ---------------------------------- *)

\* C15: the attendees of an event created through createEvent is never
\* stale: whenever no request is in progress and both latest requests were
\* register requests for that event answered with success, the attendees of
\* the event, if still stored, equals the tickets of its registrations.
C15_CounterNeverStale ==
    \A e \in CreatedIds \cap DOMAIN events :
        ( /\ Quiescent
          /\ \A p \in Procs :
               /\ Finished(p, "register")
               /\ req[p].eventId = e
               /\ req[p].res.status = 201 )
        => events[e].attendees = Tickets(e)

(* ------------------------------- C16 ---------------------------------- *)

\* what the handler answers to a request for tickets of an event of the given
\* capacity whose registrations sum to registered, as a function of these
\* three numbers alone: the status, and the number reported (the attendees
\* written on success, the tickets left on refusal)
DecisionFrom(registered, tickets, capacity) ==
    IF registered + tickets > capacity
    THEN [status |-> 400, n |-> capacity - registered]
    ELSE [status |-> 201, n |-> registered + tickets]

\* C16: with requests one at a time, the answer to a register request for a
\* stored event, unless the storage fails, is determined by the capacity of
\* the event, the tickets of its registrations and the tickets requested,
\* whatever the attendees field of the event held: the same acceptance or
\* refusal, the same number of tickets left, and on success the attendees
\* written is the tickets registered before plus those requested.
C16_AttendeesFieldIgnored ==
    ( /\ Finished(1, "register")
      /\ ~RegisterOutcome(1, "validation")
      /\ ~RegisterOutcome(1, "storage")
      /\ req[1].eventId \in DOMAIN before.events )
    => LET e == req[1].eventId
           d == DecisionFrom(TicketsBefore(e), req[1].tickets,
                             before.events[e].capacity)
       IN  /\ req[1].res.status = d.status
           /\ req[1].res.n = d.n
           /\ d.status = 201 => events[e].attendees = d.n
           /\ d.status = 400 => events[e] = before.events[e]

\* a request for an event whose attendees field differed from the tickets of
\* its registrations has been refused for capacity, and a sample event, whose
\* attendees field was not the tickets of its registrations, has accepted a
\* registration and holds their tickets as attendees
C16_Witness ==
    /\ Finished(1, "register")
    /\ req[1].eventId \in DOMAIN before.events
    /\ before.events[req[1].eventId].attendees # TicketsBefore(req[1].eventId)
    /\ RegisterOutcome(1, "capacity")
    /\ \E e \in DOMAIN events :
         /\ RegistrationsIn(regs, e) # {}
         /\ events[e].attendees = Tickets(e)
         /\ e <= Len(sampleEvents)

(* ------------------------------- C17 ---------------------------------- *)

\* C17: when requests overlap, a deleteEvent(id) that returns without a
\* storage error returns 1 if its DELETE removed the event id and 0 if it
\* removed nothing, removes no other event, and is answered 200 exactly when
\* it returned 1 and "Event not found" exactly when it returned 0; a
\* deleteEvent for an id that is not stored leaves the events unchanged; and
\* of two deleteEvent calls for the same id, stored when the later of them
\* arrived, that both return without a storage error, one returns 1 and the
\* other 0.
C17_DeleteReturnsCount ==
    [][\A p \in Procs :
         ( /\ req[p].op = "delete" /\ req[p].pc = "delete_event"
           /\ req'[p].pc = "done"
           /\ req'[p].res.status # 500 )
         => LET id == req[p].eventId
                removed == DOMAIN events \ DOMAIN events'
            IN  /\ DOMAIN events' \subseteq DOMAIN events
                /\ removed \subseteq {id}
                /\ \A i \in DOMAIN events' : events'[i] = events[i]
                /\ req'[p].res.n = Cardinality(removed)
                /\ (req'[p].res.n = 1) = (req'[p].res.status = 200)
                /\ (req'[p].res.n = 0)
                     = ( /\ req'[p].res.status = 404
                         /\ req'[p].res.error = "Event not found" )
                /\ id \notin DOMAIN events => events' = events
                /\ \A q \in Procs \ {p} :
                     ( /\ Finished(q, "delete")
                       /\ req[q].eventId = id
                       /\ req[q].res.status # 500
                       /\ id \in DOMAIN before.events )
                     => req'[p].res.n + req[q].res.n = 1
      ]_vars

\* two overlapping deleteEvent calls for an event that was stored when the
\* later one arrived: one has returned 1, the other has deleted the
\* registrations and is at its DELETE of the event, which is gone
C17_Witness ==
    \E p, q \in Procs :
        /\ p # q
        /\ Finished(q, "delete") /\ req[q].res.n = 1
        /\ req[p].op = "delete" /\ req[p].pc = "delete_event"
        /\ req[p].eventId = req[q].eventId
        /\ req[p].eventId \in DOMAIN before.events
        /\ req[p].eventId \notin DOMAIN events

(* ------------------------------- C18 ---------------------------------- *)

\* C18: initDatabase always settles: whatever the outcome of each of its
\* storage operations, as long as its promise is neither resolved (the server
\* listens) nor rejected (startServer exits) it has a step left to take.
C18_InitSettles ==
    srv \in {"listening", "exited"} \/ ENABLED Boot

(* ------------------------------- C19 ---------------------------------- *)

\* C19: when requests overlap, every stored event carries its own id, no two
\* the same; an id given to a new event is greater than every id given
\* before, stored or since deleted, and ids given are never taken back; so no
\* registration stored when an event is created, in particular none left
\* behind by a deleted event, has the id of the new event.
C19_IdsNeverReused ==
    [][/\ \A i \in DOMAIN events' : events'[i].id = i
       /\ \A i \in DOMAIN events : i <= lastEventId
       /\ lastEventId' >= lastEventId
       /\ \A i \in DOMAIN events' \ DOMAIN events :
            /\ i > lastEventId
            /\ i <= lastEventId'
            /\ \A r \in regs \cup regs' : r.event_id # i
      ]_vars

\* an event has been created after the last sample event was deleted with a
\* registration of it left behind; the new event has another id
C19_Witness ==
    \E p \in Procs :
        /\ Finished(p, "create")
        /\ req[p].res.status = 201
        /\ req[p].res.n \in DOMAIN events
        /\ LastSampleId \notin DOMAIN before.events
        /\ RegistrationsIn(before.regs, LastSampleId) # {}
        /\ RegistrationsIn(regs, LastSampleId) # {}
        /\ RegistrationsIn(regs, req[p].res.n) = {}

====
